---- MODULE Spec2Model ----
\* Cube Rush (src/Cube Rush/main.js): the timed click-reaction game loop.
\* The three callbacks (countdown timer, spawn timer, click listener) run on the
\* single JavaScript event loop, so each callback is one atomic action.
EXTENDS Integers, FiniteSets, Sequences, TLC

\* ---------------------------------------------------------------------------
\* Program constants and model bounds
\* ---------------------------------------------------------------------------

\* let timeLeft = 30 (main.js:94)
InitialTimeLeft == 30

\* const maxActive = 3 (main.js:164)
maxActive == 3

\* Number of cubes in the grid. The program builds rows * cols = 24
\* interchangeable cubes; the model keeps more cubes than maxActive so that a
\* saturated spawner always still has inactive cubes, as in the program.
NumCubes == 4

\* Cap on the number of clicks that land on an active cube (bounds score).
MaxHits == 3

\* Saturation point of the counter of consecutive spawner ticks.
SpawnRunCap == 5

\* cubes[] holds the Targets, identified by userData.id = 1, 2, ...
cubes == 1..NumCubes

\* intersects.length = 0: the click hit no cube
NoPick == 0

Picks == cubes \cup {NoPick}

Min(a, b) == IF a <= b THEN a ELSE b

\* Saturation point of the counter of effective activations; the program
\* itself stays below it (at most MaxHits hits plus maxActive active cubes).
ActivationCap == MaxHits + maxActive + 1

VARIABLES
  score,          \* let score
  timeLeft,       \* let timeLeft
  gameOver,       \* let gameOver
  scoreEl,        \* scoreEl.textContent
  timeEl,         \* timeEl.textContent
  messageEl,      \* messageEl.textContent
  timerInterval,  \* TRUE while the countdown setInterval is scheduled
  isActive,       \* cube.userData.isActive, per cube
  activeCubes,    \* the Set activeCubes
  last,           \* history: the callback that ran last, its pick result,
                  \*          whether the pick was active at call time, and
                  \*          whether it repeats a hit made by the previous
                  \*          callback
  activeClicks,   \* history: clicks whose pick was an active cube at call time
  liveHits,       \* history: such clicks made while the game was not over
  ticks,          \* history: invocations of the countdown callback
  run,            \* history: spawner ticks since the ActiveSet was last empty
                  \*          with no hit in between (-1: a hit intervened)
  activations     \* history: spawner ticks that activated a cube

gameVars == <<score, timeLeft, gameOver>>
uiVars == <<scoreEl, timeEl, messageEl>>
cubeVars == <<isActive, activeCubes>>
progVars == <<score, timeLeft, gameOver, scoreEl, timeEl, messageEl,
              timerInterval, isActive, activeCubes>>
vars == <<score, timeLeft, gameOver, scoreEl, timeEl, messageEl,
          timerInterval, isActive, activeCubes,
          last, activeClicks, liveHits, ticks, run, activations>>

\* ---------------------------------------------------------------------------
\* The program
\* ---------------------------------------------------------------------------

\* The three template strings of updateUI, as the parts they are built from.
ScoreText(s) == <<"Score: ", s>>
TimeText(t) == <<"Time: ", t, "s">>
MessageText(g) ==
  IF g THEN "Game over! Reload to play again." ELSE "Click the glowing cubes!"

\* updateUI(), reading the values the callback has just written.
updateUI(s, t, g) ==
  /\ scoreEl' = ScoreText(s)
  /\ timeEl' = TimeText(t)
  /\ messageEl' = MessageText(g)

Init ==
  /\ score = 0
  /\ timeLeft = InitialTimeLeft
  /\ gameOver = FALSE
  /\ scoreEl = ScoreText(0)
  /\ timeEl = TimeText(InitialTimeLeft)
  /\ messageEl = MessageText(FALSE)
  /\ timerInterval = TRUE
  /\ isActive = [c \in cubes |-> FALSE]
  /\ activeCubes = {}
  /\ last = [op |-> "init", pick |-> NoPick, wasActive |-> FALSE,
             repeat |-> FALSE]
  /\ activeClicks = 0
  /\ liveHits = 0
  /\ ticks = 0
  /\ run = 0
  /\ activations = 0

\* Variants of the countdown callback with a plausible slip each.
TimerCallback_StrictClamp ==
  IF gameOver
  THEN UNCHANGED progVars
  ELSE /\ IF timeLeft - 1 < 0
          THEN /\ timeLeft' = 0
               /\ gameOver' = TRUE
               /\ timerInterval' = FALSE
          ELSE /\ timeLeft' = timeLeft - 1
               /\ UNCHANGED <<gameOver, timerInterval>>
       /\ updateUI(score, timeLeft', gameOver')
       /\ UNCHANGED <<score, isActive, activeCubes>>

TimerCallback_StepTwo ==
  IF gameOver
  THEN UNCHANGED progVars
  ELSE /\ IF timeLeft - 2 <= 0
          THEN /\ timeLeft' = 0
               /\ gameOver' = TRUE
               /\ timerInterval' = FALSE
          ELSE /\ timeLeft' = timeLeft - 2
               /\ UNCHANGED <<gameOver, timerInterval>>
       /\ updateUI(score, timeLeft', gameOver')
       /\ UNCHANGED <<score, isActive, activeCubes>>

TimerCallback_NoClear ==
  IF gameOver
  THEN UNCHANGED progVars
  ELSE /\ IF timeLeft - 1 <= 0
          THEN /\ timeLeft' = 0
               /\ gameOver' = TRUE
          ELSE /\ timeLeft' = timeLeft - 1
               /\ UNCHANGED gameOver
       /\ UNCHANGED timerInterval
       /\ updateUI(score, timeLeft', gameOver')
       /\ UNCHANGED <<score, isActive, activeCubes>>

\* The callback of timerInterval = setInterval(..., 1000).
TimerCallback ==
  IF gameOver
  THEN UNCHANGED progVars
  ELSE /\ IF timeLeft - 1 <= 0
          THEN /\ timeLeft' = 0
               /\ gameOver' = TRUE
               /\ timerInterval' = FALSE
          ELSE /\ timeLeft' = timeLeft - 1
               /\ UNCHANGED <<gameOver, timerInterval>>
       /\ updateUI(score, timeLeft', gameOver')
       /\ UNCHANGED <<score, isActive, activeCubes>>

\* Variants of activateRandomCube with a plausible slip each.
activateRandomCube_OffByOne ==
  IF gameOver
  THEN UNCHANGED cubeVars
  ELSE IF Cardinality(activeCubes) > maxActive
       THEN UNCHANGED cubeVars
       ELSE LET available == {c \in cubes : c \notin activeCubes} IN
            IF available = {}
            THEN UNCHANGED cubeVars
            ELSE \E cube \in available :
                   /\ isActive' = [isActive EXCEPT ![cube] = TRUE]
                   /\ activeCubes' = activeCubes \cup {cube}

activateRandomCube_AnyCube ==
  IF gameOver
  THEN UNCHANGED cubeVars
  ELSE IF Cardinality(activeCubes) >= maxActive
       THEN UNCHANGED cubeVars
       ELSE \E cube \in cubes :
              /\ isActive' = [isActive EXCEPT ![cube] = TRUE]
              /\ activeCubes' = activeCubes \cup {cube}

\* activateRandomCube(): Math.random picks any element of available.
activateRandomCube ==
  IF gameOver
  THEN UNCHANGED cubeVars
  ELSE IF Cardinality(activeCubes) >= maxActive
       THEN UNCHANGED cubeVars
       ELSE LET available == {c \in cubes : c \notin activeCubes} IN
            IF available = {}
            THEN UNCHANGED cubeVars
            ELSE \E cube \in available :
                   /\ isActive' = [isActive EXCEPT ![cube] = TRUE]
                   /\ activeCubes' = activeCubes \cup {cube}

\* The callback of setInterval(..., 700); this interval is never cleared.
SpawnCallback ==
  /\ IF ~gameOver THEN activateRandomCube ELSE UNCHANGED cubeVars
  /\ UNCHANGED <<score, timeLeft, gameOver, scoreEl, timeEl, messageEl,
                 timerInterval>>

\* A variant of deactivateCube that forgets the flag.
deactivateCube_KeepsFlag(cube) ==
  /\ UNCHANGED isActive
  /\ activeCubes' = activeCubes \ {cube}

\* A variant of deactivateCube that forgets activeCubes.delete.
deactivateCube_KeepsMember(cube) ==
  /\ isActive' = [isActive EXCEPT ![cube] = FALSE]
  /\ UNCHANGED activeCubes

\* deactivateCube(cube)
deactivateCube(cube) ==
  /\ isActive' = [isActive EXCEPT ![cube] = FALSE]
  /\ activeCubes' = activeCubes \ {cube}

\* Variants of onClick with a plausible slip each.
onClick_NoOverGuard(pick) ==
  IF pick # NoPick /\ isActive[pick]
  THEN /\ score' = score + 1
       /\ deactivateCube(pick)
       /\ updateUI(score', timeLeft, gameOver)
       /\ UNCHANGED <<timeLeft, gameOver, timerInterval>>
  ELSE UNCHANGED progVars

onClick_AnyCube(pick) ==
  IF gameOver
  THEN UNCHANGED progVars
  ELSE IF pick # NoPick
       THEN /\ score' = score + 1
            /\ deactivateCube(pick)
            /\ updateUI(score', timeLeft, gameOver)
            /\ UNCHANGED <<timeLeft, gameOver, timerInterval>>
       ELSE UNCHANGED progVars

onClick_CountsMisses(pick) ==
  IF gameOver
  THEN UNCHANGED progVars
  ELSE IF pick # NoPick /\ isActive[pick]
       THEN /\ score' = score + 1
            /\ deactivateCube(pick)
            /\ updateUI(score', timeLeft, gameOver)
            /\ UNCHANGED <<timeLeft, gameOver, timerInterval>>
       ELSE /\ score' = score + 1
            /\ updateUI(score', timeLeft, gameOver)
            /\ UNCHANGED <<timeLeft, gameOver, timerInterval, isActive,
                           activeCubes>>

onClick_NoRefresh(pick) ==
  IF gameOver
  THEN UNCHANGED progVars
  ELSE IF pick # NoPick /\ isActive[pick]
       THEN /\ score' = score + 1
            /\ deactivateCube(pick)
            /\ UNCHANGED <<timeLeft, gameOver, timerInterval, scoreEl, timeEl,
                           messageEl>>
       ELSE UNCHANGED progVars

onClick_NoDeactivate(pick) ==
  IF gameOver
  THEN UNCHANGED progVars
  ELSE IF pick # NoPick /\ isActive[pick]
       THEN /\ score' = score + 1
            /\ updateUI(score', timeLeft, gameOver)
            /\ UNCHANGED <<timeLeft, gameOver, timerInterval, isActive,
                           activeCubes>>
       ELSE UNCHANGED progVars

\* onClick(event): pick is intersects[0].object, or NoPick when the ray hits
\* no cube.
onClick(pick) ==
  IF gameOver
  THEN UNCHANGED progVars
  ELSE IF pick # NoPick /\ isActive[pick]
       THEN /\ score' = score + 1
            /\ deactivateCube(pick)
            /\ updateUI(score', timeLeft, gameOver)
            /\ UNCHANGED <<timeLeft, gameOver, timerInterval>>
       ELSE UNCHANGED progVars

\* ---------------------------------------------------------------------------
\* The event loop: one action per callback delivery, with the history variables
\* ---------------------------------------------------------------------------

PickActive(pick) == pick # NoPick /\ isActive[pick]

\* The callback that ran last was a click that hit this same cube in play.
JustHit(pick) ==
  /\ last.op = "click"
  /\ last.wasActive
  /\ ~gameOver
  /\ last.pick = pick

\* The countdown interval fires (only while it is scheduled).
TimerFire ==
  /\ timerInterval
  /\ TimerCallback
  /\ last' = [op |-> "timer", pick |-> NoPick, wasActive |-> FALSE,
              repeat |-> FALSE]
  /\ ticks' = IF ticks <= InitialTimeLeft THEN ticks + 1 ELSE ticks
  /\ UNCHANGED <<activeClicks, liveHits, run, activations>>

\* The spawn interval fires.
SpawnFire ==
  /\ SpawnCallback
  /\ last' = [op |-> "spawn", pick |-> NoPick, wasActive |-> FALSE,
              repeat |-> FALSE]
  /\ run' = IF gameOver \/ run < 0 THEN run ELSE Min(run + 1, SpawnRunCap)
  /\ activations' = IF isActive' # isActive \/ activeCubes' # activeCubes
                    THEN Min(activations + 1, ActivationCap)
                    ELSE activations
  /\ UNCHANGED <<activeClicks, liveHits, ticks>>

\* A click event is delivered with the given pick result.
Click(pick) ==
  /\ PickActive(pick) => activeClicks < MaxHits
  /\ onClick(pick)
  /\ last' = [op |-> "click", pick |-> pick, wasActive |-> PickActive(pick),
              repeat |-> JustHit(pick)]
  /\ activeClicks' = IF PickActive(pick) THEN activeClicks + 1 ELSE activeClicks
  /\ liveHits' = IF PickActive(pick) /\ ~gameOver THEN liveHits + 1 ELSE liveHits
  /\ run' = IF score' # score
            THEN (IF activeCubes' = {} THEN 0 ELSE -1)
            ELSE run
  /\ UNCHANGED <<ticks, activations>>

Next ==
  \/ TimerFire
  \/ SpawnFire
  \/ \E pick \in Picks : Click(pick)

Spec == Init /\ [][Next]_vars

\* The host keeps delivering the countdown interval while it is scheduled.
FairSpec == Spec /\ WF_vars(TimerFire)

\* ---------------------------------------------------------------------------
\* Properties
\* ---------------------------------------------------------------------------

\* C1: once gameOver is true, no callback (spawner tick, click with any pick
\* result, countdown tick) changes score, timeLeft or the ActiveSet.
C1_FrozenAfterOver ==
  [][gameOver => UNCHANGED <<score, timeLeft, activeCubes>>]_vars

\* A click on a still-active cube was delivered after the game ended.
C1_Witness == gameOver /\ last.op = "click" /\ last.wasActive

\* C2 (as stated): score equals the number of clicks whose pick was an active
\* cube at call time, over all interleavings.
C2_ScoreCountsActiveClicks == score = activeClicks

\* C2 (amended): score equals the number of clicks delivered while the game was
\* not over whose pick was an active cube at call time.
C2_ScoreCountsLiveHits == score = liveHits

\* Hits were scored in play and a click on an active cube came after the end.
C2_Witness == gameOver /\ score >= 1 /\ activeClicks > liveHits

\* C3: the ActiveSet never holds more than maxActive cubes.
C3_ActiveBound == Cardinality(activeCubes) <= maxActive

\* The spawner ticked on a saturated ActiveSet.
C3_Witness ==
  /\ Cardinality(activeCubes) = maxActive
  /\ last.op = "spawn"
  /\ run > maxActive

\* C4: timeLeft starts at 30, is never negative, never rises, and changes only
\* in a countdown tick, which lowers it by exactly 1.
C4_TimeLeftMonotone ==
  /\ timeLeft = InitialTimeLeft
  /\ [](timeLeft >= 0)
  /\ [][/\ timeLeft' <= timeLeft
        /\ timeLeft' # timeLeft => last'.op = "timer"
        /\ last'.op = "timer" => timeLeft' = timeLeft - 1]_vars

\* The countdown has run all the way down.
C4_Witness == timeLeft = 0 /\ ticks = InitialTimeLeft /\ last.op = "timer"

\* C5: in play, a click on an active cube adds exactly 1 to score, clears the
\* cube's flag and removes it from the ActiveSet, leaving timeLeft, gameOver
\* and every other cube alone; a click on the same cube right after changes
\* nothing.
C5_HitEffect ==
  [][/\ (last'.op = "click" /\ ~gameOver /\ PickActive(last'.pick)) =>
          /\ score' = score + 1
          /\ isActive' = [isActive EXCEPT ![last'.pick] = FALSE]
          /\ activeCubes' = activeCubes \ {last'.pick}
          /\ last'.pick \in activeCubes
          /\ UNCHANGED <<timeLeft, gameOver>>
     /\ (last'.op = "click" /\ JustHit(last'.pick)) =>
          UNCHANGED <<score, timeLeft, gameOver, isActive, activeCubes>>]_vars

\* One hit, then a second click on the same cube: score is 1.
C5_Witness == last.repeat /\ score = 1 /\ ~gameOver

\* C6: a click with no pick, or on a cube whose flag is false, changes none of
\* score, timeLeft, gameOver, the flags and the ActiveSet.
C6_MissNoEffect ==
  [][(last'.op = "click" /\ ~PickActive(last'.pick)) =>
        UNCHANGED <<score, timeLeft, gameOver, isActive, activeCubes>>]_vars

\* In play, with active cubes around, a click landed on an inactive cube.
C6_Witness ==
  /\ ~gameOver
  /\ last.op = "click"
  /\ last.pick # NoPick
  /\ ~last.wasActive
  /\ activeCubes # {}

\* C7: in play, a spawner tick on an unsaturated ActiveSet with an inactive cube
\* left activates exactly one cube that was inactive and changes nothing else;
\* a spawner tick on a saturated ActiveSet, or with no inactive cube, changes
\* nothing; so k spawner ticks in play from an empty ActiveSet, with no hit in
\* between, leave min(k, maxActive) cubes active.
C7_SpawnEffect ==
  /\ [][last'.op = "spawn" =>
          /\ (/\ ~gameOver
              /\ Cardinality(activeCubes) < maxActive
              /\ \E c \in cubes : ~isActive[c]) =>
                /\ \E c \in cubes :
                     /\ ~isActive[c]
                     /\ c \notin activeCubes
                     /\ activeCubes' = activeCubes \cup {c}
                     /\ isActive' = [isActive EXCEPT ![c] = TRUE]
                /\ UNCHANGED <<score, timeLeft, gameOver>>
          /\ (\/ Cardinality(activeCubes) = maxActive
              \/ \A c \in cubes : isActive[c]) =>
                UNCHANGED <<score, timeLeft, gameOver, isActive,
                            activeCubes>>]_vars
  /\ [](run >= 0 => Cardinality(activeCubes) = Min(run, maxActive))

\* Four spawner ticks in a row from the empty ActiveSet: the fourth did nothing.
C7_Witness ==
  /\ ~gameOver
  /\ last.op = "spawn"
  /\ run = maxActive + 1
  /\ Cardinality(activeCubes) = maxActive

\* C8: gameOver is false initially, turns true exactly in the countdown tick
\* that brings timeLeft to 0, never turns false again, holds exactly when
\* timeLeft = 0, and the countdown interval is cancelled in that tick, so no
\* countdown tick fires afterwards.
C8_OneWayGameOver ==
  /\ ~gameOver
  /\ [](gameOver <=> timeLeft = 0)
  /\ [](gameOver <=> ~timerInterval)
  /\ [][/\ gameOver => gameOver'
        /\ (~gameOver /\ gameOver') =>
             (last'.op = "timer" /\ timeLeft = 1 /\ timeLeft' = 0)
        /\ (last'.op = "timer" /\ timeLeft' = 0) => gameOver'
        /\ gameOver => last'.op # "timer"]_vars

\* The game has ended and the other callbacks keep arriving.
C8_Witness == gameOver /\ timeLeft = 0 /\ last.op = "spawn"

\* C9: after every callback the status display shows the current score,
\* timeLeft and play / game-over message.
C9_DisplayProjection ==
  /\ scoreEl = ScoreText(score)
  /\ timeEl = TimeText(timeLeft)
  /\ messageEl = MessageText(gameOver)

\* The display after hits were scored and the final tick ended the game.
C9_Witness ==
  /\ gameOver
  /\ score >= 1
  /\ last.op = "timer"
  /\ messageEl = "Game over! Reload to play again."

\* C10: with the countdown interval delivered fairly, the game eventually ends;
\* it ends on exactly the 30th countdown tick, and clicks and spawner ticks
\* leave the countdown alone.
C10_GameEnds ==
  /\ <>gameOver
  /\ [](gameOver <=> ticks = InitialTimeLeft)
  /\ [][last'.op \in {"click", "spawn"} =>
          UNCHANGED <<timeLeft, gameOver, timerInterval, ticks>>]_vars

\* The game ended after 30 ticks with hits scored and cubes still active.
C10_Witness ==
  /\ gameOver
  /\ ticks = InitialTimeLeft
  /\ score >= 1
  /\ activeCubes # {}

\* C11: the two representations of activity agree in every reachable state: a
\* cube is in activeCubes exactly when its userData.isActive flag is true,
\* after the game has ended as well.
C11_ActiveSetMatchesFlags ==
  \A c \in cubes : (c \in activeCubes) <=> isActive[c]

\* After spawns and hits the game ended with some cubes active, others not.
C11_Witness ==
  /\ gameOver
  /\ score >= 1
  /\ \E c \in cubes : c \in activeCubes /\ isActive[c]
  /\ \E c \in cubes : c \notin activeCubes /\ ~isActive[c]

\* C12: conservation of activations: score plus the size of the ActiveSet is
\* the number of spawner ticks that activated a cube, so score never exceeds
\* that number; score is a natural number and never decreases.
C12_ActivationsConserved ==
  /\ [](score + Cardinality(activeCubes) = activations)
  /\ [](score \in Nat /\ score <= activations)
  /\ [][score' >= score]_vars

\* Cubes were hit and the spawner refilled the ActiveSet beyond maxActive
\* activations in total.
C12_Witness ==
  /\ score >= 2
  /\ activeCubes # {}
  /\ activations > maxActive
  /\ last.op = "spawn"

====
